---- MODULE Spec2Model ----
(***************************************************************************)
(* A model of the swagexample package: the SWAG dataset reader             *)
(* (swagexample/readers.py) and the dot-product scoring model              *)
(* (swagexample/models.py).                                                *)
(*                                                                         *)
(* Python values that the claims distinguish by type (str, int, None) are  *)
(* records [type, repr], so that '2' and 2 are different values.           *)
(***************************************************************************)
EXTENDS Integers, Sequences, FiniteSets, TLC

(* ------------------------------ bounds -------------------------------- *)
MaxLines == 2
MaxReads == 2
MaxDim == 2
MaxBatch == 2
NumExamples == 2
MaxTotal == 4

(* --------------------------- Python values ---------------------------- *)
None == [type |-> "NoneType", repr |-> "None"]
PyStr(s) == [type |-> "str", repr |-> s]
IntRepr(n) == <<"0", "1", "2", "3">>[n + 1]
PyInt(n) == [type |-> "int", repr |-> IntRepr(n)]

(* ------------------------------ CSV file ------------------------------ *)
TextColumns == <<"startphrase", "ending0", "ending1", "ending2", "ending3">>
HeaderText == TextColumns
HeaderLabelled == Append(TextColumns, "label")
HeaderShort == SubSeq(TextColumns, 1, 4)
Headers == {HeaderText, HeaderLabelled, HeaderShort}

TextsA == <<"A man is sitting.", "He stands up.", "He flies away.", "He eats soup.", "He sleeps.">>
TextsB == <<"A dog barks.", "It runs.", "It sings.", "It reads.", "It naps.">>
LabelCells == {"", "0", "1", "2", "3"}
BlankLine == <<>>
RowPool ==
    {BlankLine, TextsA, TextsB, Append(TextsB, "1")}
        \cup {Append(TextsA, c) : c \in LabelCells}

SeqsUpTo(S, n) == UNION {[1..k -> S] : k \in 0..n}
Files == [header : Headers, lines : SeqsUpTo(RowPool, MaxLines)]

(* ------------------------------ tokenizer ----------------------------- *)
Tokenize(text) ==
    CASE text = "A man is sitting." -> <<"A", "man", "is", "sitting", ".">>
      [] text = "He stands up."     -> <<"He", "stands", "up", ".">>
      [] text = "He flies away."    -> <<"He", "flies", "away", ".">>
      [] text = "He eats soup."     -> <<"He", "eats", "soup", ".">>
      [] text = "He sleeps."        -> <<"He", "sleeps", ".">>
      [] text = "A dog barks."      -> <<"A", "dog", "barks", ".">>
      [] text = "It runs."          -> <<"It", "runs", ".">>
      [] text = "It sings."         -> <<"It", "sings", ".">>
      [] text = "It reads."         -> <<"It", "reads", ".">>
      [] text = "It naps."          -> <<"It", "naps", ".">>

(* ------------------------------ csv.DictReader ------------------------ *)
RestKey == "<restkey None>"

\* The dict DictReader builds for one non-blank row: fieldnames zipped with
\* the cells, missing cells filled with restval None, surplus cells
\* collected under restkey None.
RowDict(header, cells) ==
    LET named == [j \in 1..Len(header) |->
                    IF j <= Len(cells) THEN PyStr(cells[j]) ELSE None]
        base == [name \in {header[j] : j \in 1..Len(header)} |->
                    named[CHOOSE j \in 1..Len(header) : header[j] = name]]
    IN  IF Len(cells) > Len(header)
        THEN [k \in DOMAIN base \cup {RestKey} |->
                 IF k = RestKey
                 THEN [type |-> "list", repr |-> "surplus cells"]
                 ELSE base[k]]
        ELSE base

DictGetBlank(d, key) == IF key \in DOMAIN d THEN d[key] ELSE PyStr("")

\* row.get(key): the value, or None when the key is absent.
DictGet(d, key) == IF key \in DOMAIN d THEN d[key] ELSE None

NextRecordSkipping(lines, pos) ==
    LET later == {j \in (pos + 2)..Len(lines) : lines[j] # BlankLine}
    IN  IF later = {} THEN 0
        ELSE CHOOSE j \in later : \A m \in later : j <= m

\* DictReader.__next__ skips rows that are empty lists: the index of the
\* first non-blank line after position pos, or 0 when the file is spent.
NextRecord(lines, pos) ==
    LET later == {j \in (pos + 1)..Len(lines) : lines[j] # BlankLine}
    IN  IF later = {} THEN 0
        ELSE CHOOSE j \in later : \A m \in later : j <= m

(* --------------------------- text_to_instance ------------------------- *)
TextField(tokens) == [field |-> "TextField", tokens |-> tokens]
LabelField(label) == [field |-> "LabelField", label |-> label]

\* `label is not None`
HasLabel(label) == label.type # "NoneType"

TextToInstance(startphrase, ending0, ending1, ending2, ending3, label) ==
    LET texts == <<startphrase, ending0, ending1, ending2, ending3>>
        fields == [name \in {TextColumns[j] : j \in 1..5} |->
                     TextField(Tokenize(
                        texts[CHOOSE j \in 1..5 : TextColumns[j] = name].repr))]
    IN  IF HasLabel(label)
        THEN [name \in DOMAIN fields \cup {"label"} |->
                 IF name = "label" THEN LabelField(label) ELSE fields[name]]
        ELSE fields

(* ------------------------------- tensors ----------------------------- *)
\* A tensor is a shape over a flat row-major storage, as in torch; index
\* tuples are 1-based.
RECURSIVE Size(_)
Size(shape) == IF shape = <<>> THEN 1 ELSE Head(shape) * Size(Tail(shape))

RECURSIVE Offset(_, _)
\* The 0-based position in the storage of the entry at idx.
Offset(idx, shape) ==
    IF shape = <<>> THEN 0
    ELSE (Head(idx) - 1) * Size(Tail(shape)) + Offset(Tail(idx), Tail(shape))

RECURSIVE Unflatten(_, _)
\* The index tuple of the entry at 0-based position k of the storage.
Unflatten(k, shape) ==
    IF shape = <<>> THEN <<>>
    ELSE <<(k \div Size(Tail(shape))) + 1>>
            \o Unflatten(k % Size(Tail(shape)), Tail(shape))

RECURSIVE Storage(_, _)
Storage(f, n) == IF n = 0 THEN <<>> ELSE Append(Storage(f, n - 1), f[n])

\* The tensor of the given shape whose entry at index tuple idx is f[idx],
\* for f defined on the index tuples of the shape.
Tensor(shape, f) ==
    [type |-> "Tensor", shape |-> shape,
     data |-> Storage([k \in 1..Size(shape) |-> f[Unflatten(k - 1, shape)]],
                      Size(shape))]

\* The index tuples of a shape.
IndexSet(shape) == {Unflatten(k - 1, shape) : k \in 1..Size(shape)}

At(x, idx) == x.data[Offset(idx, x.shape) + 1]

\* torch.stack(tensors, dim=-2) of four (B, D) tensors: (B, 4, D).
Stack(tensors) ==
    LET B == tensors[1].shape[1]
        D == tensors[1].shape[2]
    IN  Tensor(<<B, Len(tensors), D>>,
               [idx \in IndexSet(<<B, Len(tensors), D>>) |->
                   At(tensors[idx[2]], <<idx[1], idx[3]>>)])

\* x.unsqueeze(-1): (B, D) becomes (B, D, 1) over the same storage.
Unsqueeze(x) == [x EXCEPT !.shape = Append(@, 1)]

RECURSIVE SumTo(_, _)
SumTo(f, n) == IF n = 0 THEN 0 ELSE f[n] + SumTo(f, n - 1)

\* x.bmm(y): (B, N, D) times (B, D, M) is (B, N, M).
Bmm(x, y) ==
    Tensor(<<x.shape[1], x.shape[2], y.shape[3]>>,
           [idx \in IndexSet(<<x.shape[1], x.shape[2], y.shape[3]>>) |->
              SumTo([d \in 1..x.shape[3] |->
                        At(x, <<idx[1], idx[2], d>>) * At(y, <<idx[1], d, idx[3]>>)],
                    x.shape[3])])

\* x.squeeze() with no argument removes EVERY dimension of size 1; the
\* storage is the same.
Squeeze(x) == [x EXCEPT !.shape = SelectSeq(@, LAMBDA s : s # 1)]

\* softmax(x, dim=-1): entry idx is exp(x[idx]) over the sum of exp of the
\* entries that differ from idx in the last coordinate only; kept symbolic.
Softmax(x) ==
    LET n == Len(x.shape)
    IN  Tensor(x.shape,
               [idx \in IndexSet(x.shape) |->
                  [exp |-> At(x, idx),
                   over |-> [k \in 1..x.shape[n] |->
                                At(x, [idx EXCEPT ![n] = k])]]])

\* CrossEntropyLoss()(input, target): the input must be (N, C) with one
\* target per row; anything else raises.  The mean of the negative
\* log-likelihoods is kept symbolic.
CrossEntropyRaises(input, target) ==
    ~ (Len(input.shape) = 2 /\ input.shape[1] = target.shape[1])

CrossEntropy(input, target) ==
    Tensor(<<>>,
           [idx \in IndexSet(<<>>) |->
              [mean_nll |-> [b \in 1..input.shape[1] |->
                  [logits |-> [k \in 1..input.shape[2] |-> At(input, <<b, k>>)],
                   gold |-> At(target, <<b>>)]]]])

(* --------------------------- encoder outputs -------------------------- *)
\* The embedder and the encoders are collaborators: what they return for
\* the examples of a batch is drawn from a pool of NumExamples examples.
Examples == 1..NumExamples
\* (written as an enumeration of the batches of 1..MaxBatch examples)
Batches == {batch : batch \in UNION {[1..b -> Examples] : b \in 1..MaxBatch}}

StartComp(e, d) == IF (e + d) % 2 = 0 THEN 1 ELSE -1
EndComp(e, i, d) == ((e * (i + 1) + d * i) % 5) - 2
Gold(e) == e % 4

StartphraseEmbedding(batch, D) ==
    Tensor(<<Len(batch), D>>,
           [idx \in IndexSet(<<Len(batch), D>>) |-> StartComp(batch[idx[1]], idx[2])])

EndingEmbedding(i, batch, D) ==
    Tensor(<<Len(batch), D>>,
           [idx \in IndexSet(<<Len(batch), D>>) |-> EndComp(batch[idx[1]], i, idx[2])])

LabelTensor(batch) ==
    Tensor(<<Len(batch)>>,
           [idx \in IndexSet(<<Len(batch)>>) |-> Gold(batch[idx[1]])])

(* ------------------------------ the model ----------------------------- *)
Dims == 1..MaxDim
Similarities == {"dot_product", "cosine"}
Configs == [embedder_out : Dims, startphrase_in : Dims, ending_in : Dims,
            startphrase_out : Dims, ending_out : Dims,
            similarity : Similarities]

SubModules == {"text_field_embedder", "startphrase_encoder",
               "ending_encoder", "similarity"}

\* check_dimensions_match raises ConfigurationError unless the two agree.
DimensionsMatch(dim1, dim2) == dim1 = dim2

ConstructModelUnchecked(c) ==
    LET afterSuper == {"vocab", "_regularizer"}
        failed == [status |-> "raised", attrs |-> afterSuper, initialized |-> FALSE]
    IN  IF ~DimensionsMatch(c.embedder_out, c.startphrase_in) THEN failed
        ELSE IF ~DimensionsMatch(c.embedder_out, c.ending_in) THEN failed
        ELSE [status |-> "constructed",
              attrs |-> afterSuper \cup SubModules \cup {"xentropy", "accuracy"},
              initialized |-> TRUE]

\* SWAGExampleModel.__init__, statement by statement; an exception ends it.
ConstructModel(c) ==
    LET afterSuper == {"vocab", "_regularizer"}
        failed == [status |-> "raised", attrs |-> afterSuper, initialized |-> FALSE]
    IN  IF ~DimensionsMatch(c.embedder_out, c.startphrase_in) THEN failed
        ELSE IF ~DimensionsMatch(c.embedder_out, c.ending_in) THEN failed
        ELSE IF ~DimensionsMatch(c.startphrase_out, c.ending_out) THEN failed
        ELSE [status |-> "constructed",
              attrs |-> afterSuper \cup SubModules \cup {"xentropy", "accuracy"},
              initialized |-> TRUE]

\* The logits of forward: stack, bmm, squeeze.
Logits(batch, D) ==
    Squeeze(Bmm(Stack([i \in 1..4 |-> EndingEmbedding(i - 1, batch, D)]),
                Unsqueeze(StartphraseEmbedding(batch, D))))

\* What forward returns, or that it raised.
ForwardResult(batch, D, label) ==
    LET logits == Logits(batch, D)
        probabilities == Softmax(logits)
    IN  IF HasLabel(label) /\ CrossEntropyRaises(logits, label)
        THEN [status |-> "raised", logits |-> None, probabilities |-> None,
              loss |-> None]
        ELSE [status |-> "returned", logits |-> logits,
              probabilities |-> probabilities,
              loss |-> IF HasLabel(label) THEN CrossEntropy(logits, label)
                       ELSE None]

\* forward is a function of its batch, the encoders' dimension and whether
\* labels are supplied: its results, tabulated.
ForwardTable ==
    [batch \in Batches, D \in Dims, labelled \in BOOLEAN |->
        ForwardResult(batch, D, IF labelled THEN LabelTensor(batch) ELSE None)]

\* CategoricalAccuracy: the predictions it may take from (B, 4) logits, one
\* index of a maximal entry per row (which one on a tie is the backend's).
Predictions(logits) ==
    {p \in [1..logits.shape[1] -> 1..logits.shape[2]] :
        \A b \in 1..logits.shape[1] : \A k \in 1..logits.shape[2] :
            At(logits, <<b, k>>) <= At(logits, <<b, p[b]>>)}

AccuracyCall(acc, pred, label) ==
    [correct_count |-> acc.correct_count
        + Cardinality({b \in DOMAIN pred : pred[b] - 1 = At(label, <<b>>)}),
     total_count |-> acc.total_count + Len(pred)]

ZeroAccuracy == [correct_count |-> 0, total_count |-> 0]

AccuracyAlwaysReset(acc, reset) == ZeroAccuracy

\* CategoricalAccuracy.get_metric(reset): the accumulator afterwards.
AccuracyAfterGetMetric(acc, reset) == IF reset THEN ZeroAccuracy ELSE acc

\* The accuracy get_metric reports: correct_count / total_count, symbolic.
AccuracyReport(acc) == [correct |-> acc.correct_count, total |-> acc.total_count]

(* ------------------------------- state -------------------------------- *)
VARIABLES
    file,      \* the CSV file on disk: its header and its lines
    gens,      \* the generators _read has returned, by order of creation
    cfg,       \* the dimensions and similarity the model is built with
    model,     \* the SWAGExampleModel instance and how construction ended
    accuracy,  \* self.accuracy: the running CategoricalAccuracy counts
    lastOut,   \* the latest call of forward: its batch and what it returned
    calls      \* the two latest calls made on the model, older first

vars == <<file, gens, cfg, model, accuracy, lastOut, calls>>

readerVars == <<file, gens>>
modelVars == <<cfg, model, accuracy, lastOut, calls>>

Gens == 1..MaxReads

NewGen == [st |-> "unborn", pos |-> 0, parsed |-> 0, out |-> <<>>]

\* The record of the calls keeps the latest call and the one before it.
Record(log, call) ==
    IF Len(log) = 2 THEN <<log[2], call>> ELSE Append(log, call)

NoModel == [status |-> "new", attrs |-> {}, initialized |-> FALSE]
NoOutput == [status |-> "none", batch |-> <<>>, labelled |-> FALSE,
             logits |-> None, probabilities |-> None, loss |-> None]

OpenPosShared(otherPos) == otherPos

\* A fresh call of _read opens the file again: reading starts before line 1.
OpenPos(otherPos) == 0

(* ------------------------------ the reader ---------------------------- *)
\* reader._read(file_path): creates the generator; no code of the body runs.
CallRead(g) ==
    /\ gens[g].st = "unborn"
    /\ \A h \in Gens : h < g => gens[h].st # "unborn"
    /\ gens' = [gens EXCEPT ![g].st = "created"]
    /\ UNCHANGED <<file, modelVars>>

\* next(generator): runs the body up to the next yield, the end of the
\* loop, or the KeyError of a missing required column.
Resume(g) ==
    /\ gens[g].st \in {"created", "suspended"}
    /\ LET from == IF gens[g].st = "created"
                   THEN OpenPos(IF g > 1 THEN gens[g - 1].pos ELSE 0)
                   ELSE gens[g].pos
           j == NextRecord(file.lines, from)
       IN  IF j = 0
           THEN gens' = [gens EXCEPT ![g].st = "exhausted",
                                     ![g].pos = Len(file.lines)]
           ELSE LET row == RowDict(file.header, file.lines[j])
                IN  IF \E c \in 1..5 : TextColumns[c] \notin DOMAIN row
                    THEN gens' = [gens EXCEPT ![g].st = "raised",
                                              ![g].pos = j]
                    ELSE gens' = [gens EXCEPT
                            ![g].st = "suspended",
                            ![g].pos = j,
                            ![g].parsed = @ + 1,
                            ![g].out = Append(@, TextToInstance(
                                row["startphrase"], row["ending0"],
                                row["ending1"], row["ending2"],
                                row["ending3"], DictGet(row, "label")))]
    /\ UNCHANGED <<file, modelVars>>

\* The consumer abandons the read: generator.close() leaves the with block.
Close(g) ==
    /\ gens[g].st \in {"created", "suspended"}
    /\ gens' = [gens EXCEPT ![g].st = "closed"]
    /\ UNCHANGED <<file, modelVars>>

(* ------------------------------ the model ----------------------------- *)
\* SWAGExampleModel(vocab, embedder, encoders, similarity, initializer).
Construct ==
    /\ model.status = "new"
    /\ model' = ConstructModel(cfg)
    /\ UNCHANGED <<readerVars, cfg, accuracy, lastOut, calls>>

\* model.forward(startphrase, ending0..ending3, label) on one batch.
Forward(batch, labelled) ==
    /\ model.status = "constructed"
    /\ labelled => accuracy.total_count + Len(batch) <= MaxTotal
    /\ LET label == IF labelled THEN LabelTensor(batch) ELSE None
           result == ForwardTable[batch, cfg.ending_out, labelled]
       IN  /\ lastOut' = [status |-> result.status, batch |-> batch,
                          labelled |-> labelled, logits |-> result.logits,
                          probabilities |-> result.probabilities,
                          loss |-> result.loss]
           /\ IF labelled /\ result.status = "returned"
              THEN \E pred \in Predictions(result.logits) :
                      accuracy' = AccuracyCall(accuracy, pred, label)
              ELSE accuracy' = accuracy
           /\ calls' = Record(calls,
                  [op |-> "forward", size |-> Len(batch), labelled |-> labelled,
                   reset |-> FALSE, raised |-> result.status = "raised",
                   before |-> accuracy, after |-> accuracy',
                   report |-> AccuracyReport(ZeroAccuracy)])
    /\ UNCHANGED <<readerVars, cfg, model>>

\* model.get_metrics(reset).
GetMetrics(reset) ==
    /\ model.status = "constructed"
    /\ accuracy' = AccuracyAfterGetMetric(accuracy, reset)
    /\ calls' = Record(calls,
           [op |-> "get_metrics", size |-> 0, labelled |-> FALSE,
            reset |-> reset, raised |-> FALSE,
            before |-> accuracy, after |-> accuracy',
            report |-> AccuracyReport(accuracy)])
    /\ UNCHANGED <<readerVars, cfg, model, lastOut>>

(* --------------------------- specifications --------------------------- *)
EmptyFile == [header |-> HeaderLabelled, lines |-> <<>>]
DefaultConfig == [embedder_out |-> 1, startphrase_in |-> 1, ending_in |-> 1,
                  startphrase_out |-> 1, ending_out |-> 1,
                  similarity |-> "dot_product"]

InitReader ==
    /\ file \in Files
    /\ gens = [g \in Gens |-> NewGen]
    /\ cfg = DefaultConfig
    /\ model = NoModel
    /\ accuracy = ZeroAccuracy
    /\ lastOut = NoOutput
    /\ calls = <<>>

NextReader ==
    \/ \E g \in Gens : CallRead(g)
    \/ \E g \in Gens : Resume(g)
    \/ \E g \in Gens : Close(g)

ReaderSpec == InitReader /\ [][NextReader]_vars

InitModel ==
    /\ file = EmptyFile
    /\ gens = [g \in Gens |-> NewGen]
    /\ cfg \in Configs
    /\ model = NoModel
    /\ accuracy = ZeroAccuracy
    /\ lastOut = NoOutput
    /\ calls = <<>>

NextModel ==
    \/ Construct
    \/ \E batch \in Batches, labelled \in BOOLEAN : Forward(batch, labelled)
    \/ \E reset \in BOOLEAN : GetMetrics(reset)

ModelSpec == InitModel /\ [][NextModel]_vars

(* ------------------------- properties: reader ------------------------- *)
DataRows(f) == SelectSeq(f.lines, LAMBDA l : l # BlankLine)

HasColumn(header, name) == \E j \in 1..Len(header) : header[j] = name
ColumnOf(header, name) == CHOOSE j \in 1..Len(header) : header[j] = name
HasTextColumns(header) == \A c \in 1..5 : HasColumn(header, TextColumns[c])

\* The cell of a data row under the label column, or "absent".
LabelCell(header, row) ==
    IF HasColumn(header, "label") /\ ColumnOf(header, "label") <= Len(row)
    THEN row[ColumnOf(header, "label")] ELSE "absent"

\* The instance carries the five texts of the row, and a label only if
\* it is the row's label cell.
BuiltFrom(inst, header, row) ==
    /\ \A c \in 1..5 :
          inst[TextColumns[c]] =
              TextField(Tokenize(row[ColumnOf(header, TextColumns[c])]))
    /\ "label" \in DOMAIN inst =>
          inst["label"].label.repr = LabelCell(header, row)

\* The line of the file that holds its k-th data row.
LineOfDataRow(f, k) ==
    CHOOSE j \in 1..Len(f.lines) :
        /\ f.lines[j] # BlankLine
        /\ Cardinality({m \in 1..j : f.lines[m] # BlankLine}) = k

\* C1: with the five text columns in the header, a read that runs to its
\* end has yielded exactly one example per data row, and the k-th example
\* yielded is built from the k-th data row.
C1_OneExamplePerRowInOrder ==
    HasTextColumns(file.header) =>
        \A g \in Gens :
            /\ Len(gens[g].out) <= Len(DataRows(file))
            /\ \A k \in 1..Len(gens[g].out) :
                  BuiltFrom(gens[g].out[k], file.header, DataRows(file)[k])
            /\ gens[g].st = "exhausted" =>
                  Len(gens[g].out) = Len(DataRows(file))

C1_Witness ==
    /\ HasTextColumns(file.header)
    /\ \E g \in Gens :
          /\ gens[g].st = "exhausted"
          /\ Len(gens[g].out) >= 2
          /\ gens[g].out[1] # gens[g].out[2]

\* C3: a data row whose label cell is present but blank yields an example
\* without a label field.
C3_BlankLabelIsNoLabel ==
    HasTextColumns(file.header) =>
        \A g \in Gens : \A k \in 1..Len(gens[g].out) :
            LabelCell(file.header, DataRows(file)[k]) = "" =>
                "label" \notin DOMAIN gens[g].out[k]

\* C4: when the header has the text columns and no label column, no read
\* raises and every example has exactly the five text fields.
C4_NoLabelColumnNoLabelField ==
    (HasTextColumns(file.header) /\ ~HasColumn(file.header, "label")) =>
        \A g \in Gens :
            /\ gens[g].st # "raised"
            /\ \A k \in 1..Len(gens[g].out) :
                  DOMAIN gens[g].out[k] = {TextColumns[c] : c \in 1..5}

C4_Witness ==
    /\ file.header = HeaderText
    /\ \E g \in Gens :
          /\ gens[g].st = "exhausted"
          /\ Len(gens[g].out) >= 1
          /\ \E j \in 1..Len(file.lines) : Len(file.lines[j]) = 6

\* C5: a data row whose label cell is k, for k in 0..3, yields an example
\* whose label is the integer k.
C5_LabelIsTheInteger ==
    HasTextColumns(file.header) =>
        \A g \in Gens : \A k \in 1..Len(gens[g].out) : \A n \in 0..3 :
            LabelCell(file.header, DataRows(file)[k]) = IntRepr(n) =>
                /\ "label" \in DOMAIN gens[g].out[k]
                /\ gens[g].out[k]["label"].label = PyInt(n)

\* C9: every read starts at the first data row and yields the examples of
\* any other read of the file, in the same order, whether or not an earlier
\* read was abandoned; and a read has parsed no row beyond the one whose
\* example it handed over last.
C9_RestartableOnDemand ==
    HasTextColumns(file.header) =>
        /\ \A g \in Gens :
              /\ gens[g].parsed = Len(gens[g].out)
              /\ gens[g].st = "suspended" =>
                    gens[g].pos = LineOfDataRow(file, Len(gens[g].out))
              /\ Len(gens[g].out) >= 1 =>
                    BuiltFrom(gens[g].out[1], file.header, DataRows(file)[1])
        /\ \A g, h \in Gens :
              \A k \in 1..Len(gens[g].out) :
                  k <= Len(gens[h].out) => gens[g].out[k] = gens[h].out[k]

C9_Witness ==
    /\ HasTextColumns(file.header)
    /\ gens[1].st = "closed"
    /\ Len(gens[1].out) = 1
    /\ gens[2].st = "suspended"
    /\ Len(gens[2].out) = 2
    /\ gens[2].out[1] # gens[2].out[2]

(* ------------------------- properties: model -------------------------- *)
IsNone(v) == v.type = "NoneType"

\* The dot product of the encoded ending i and the encoded start phrase of
\* the b-th example of the batch.
Dot(batch, D, b, i) ==
    SumTo([d \in 1..D |->
              At(EndingEmbedding(i, batch, D), <<b, d>>)
                  * At(StartphraseEmbedding(batch, D), <<b, d>>)], D)

\* C2: whatever the batch size B >= 1, the logits and the probabilities
\* forward returns have shape (B, 4).
C2_OutputShapeIsBatchByFour ==
    lastOut.status = "returned" =>
        /\ lastOut.logits.shape = <<Len(lastOut.batch), 4>>
        /\ lastOut.probabilities.shape = <<Len(lastOut.batch), 4>>

\* C6: construction succeeds exactly when the three dimension equalities
\* hold; when it fails, no sub-module has been bound and the initializer
\* has not been applied.
C6_ConstructionIffDimensionsMatch ==
    model.status # "new" =>
        /\ model.status = "constructed" <=>
              /\ cfg.embedder_out = cfg.startphrase_in
              /\ cfg.embedder_out = cfg.ending_in
              /\ cfg.startphrase_out = cfg.ending_out
        /\ model.status = "raised" =>
              /\ model.attrs \cap SubModules = {}
              /\ ~model.initialized
        /\ model.status = "constructed" =>
              /\ SubModules \subseteq model.attrs
              /\ model.initialized

C6_Witness ==
    /\ model.status = "raised"
    /\ cfg.embedder_out = cfg.startphrase_in
    /\ cfg.embedder_out = cfg.ending_in
    /\ cfg.startphrase_out # cfg.ending_out

\* C7: every call of forward returns a loss exactly when labels were
\* supplied.
C7_LossIffLabels ==
    lastOut.status # "none" =>
        ((lastOut.status = "returned" /\ ~IsNone(lastOut.loss))
            <=> lastOut.labelled)

\* C8: the accuracy accumulator changes only in a forward call with labels
\* (which never lowers it) or in get_metrics(reset=True); the counts one
\* call leaves are the counts the next call finds; two consecutive
\* get_metrics(reset=False) calls report the same value.
C8_AccumulatorFrame ==
    /\ \A i \in 1..Len(calls) :
          /\ calls[i].after # calls[i].before =>
                \/ calls[i].op = "forward" /\ calls[i].labelled
                \/ calls[i].op = "get_metrics" /\ calls[i].reset
          /\ calls[i].op = "forward" =>
                /\ calls[i].after.total_count >= calls[i].before.total_count
                /\ calls[i].after.correct_count >= calls[i].before.correct_count
    /\ Len(calls) >= 1 => calls[Len(calls)].after = accuracy
    /\ Len(calls) = 2 =>
          /\ calls[2].before = calls[1].after
          /\ (/\ calls[1].op = "get_metrics" /\ ~calls[1].reset
              /\ calls[2].op = "get_metrics" /\ ~calls[2].reset)
                => calls[2].report = calls[1].report

C8_Witness ==
    /\ Len(calls) = 2
    /\ calls[1].op = "get_metrics" /\ ~calls[1].reset
    /\ calls[2].op = "get_metrics" /\ ~calls[2].reset
    /\ accuracy.total_count > 0
    /\ accuracy.correct_count > 0

\* C10: in what forward returns, logits[b][i] is the dot product of the
\* encoded ending i and the encoded start phrase of example b, whatever
\* similarity the model was built with.
C10_LogitsAreDotProducts ==
    lastOut.status = "returned" =>
        /\ lastOut.logits.shape = <<Len(lastOut.batch), 4>>
        /\ \A b \in 1..Len(lastOut.batch) : \A i \in 0..3 :
              At(lastOut.logits, <<b, i + 1>>)
                  = Dot(lastOut.batch, cfg.ending_out, b, i)

====
